---- MODULE Spec2Model ----
(***************************************************************************)
(* pyopt/option.py: Option (a property whose getter, setter and deleter    *)
(* route into the private dict of an OptionsBase instance) and the         *)
(* container operations is_set, clear, diff, from_options and build.       *)
(*                                                                         *)
(* Values are objects on a heap: a container's dict holds references, so   *)
(* that deepcopy, aliasing and in-place mutation are visible.  The heap is *)
(* kept in a canonical numbering (references are renamed in the order in   *)
(* which the containers' dicts hold them); an object's address is not      *)
(* observable, only whether two references are the same object.            *)
(***************************************************************************)
EXTENDS Integers, Sequences, FiniteSets, TLC

VARIABLES ctype, opts, heap, last

vars == <<ctype, opts, heap, last>>

\* Values an object can have: 0 is a value that is not a str, 1..MaxVal are strs.
MaxVal == 2
Val == 0..MaxVal

\* The two instances a call can involve: self and other.
Containers == {1, 2}

\* Python's None (an absent default_value, no object returned).
None == -1

---------------------------------------------------------------------------
(* Option declarations and the classes that hold them.                     *)

\* Option.__init__: the attributes an Option keeps. default_value is a
\* reference to the declared default object (or None).
Opt(name, set_filter, default_value) ==
    [name |-> name, set_filter |-> set_filter, default_value |-> default_value]

\* option(name, set_filter, default_value)
option(name, set_filter, default_value) == Opt(name, set_filter, default_value)

\* readonly_option(name, default_value): set_filter is False.
readonly_option(name, default_value) == option(name, "False", default_value)

\* The heap as the class statements leave it: the declared default objects.
\*   0: ConfigDefault.flag's default, (a non-str, limit interrupts on it)
\*   1: ConfigDefault.mode's default, (limit transforms it)
\*   2: ConfigDefault.server's default, (filter_type accepts it)
\*   3: RoDefault.ident's default, 4: BadDefault.server's default (a non-str),
\*   5: DupRo.alpha's default.
DeclaredDefaults ==
    (0 :> 0) @@ (1 :> MaxVal) @@ (2 :> 1) @@ (3 :> 1) @@ (4 :> 0) @@ (5 :> 1)

DefRefs == DOMAIN DeclaredDefaults

\* The classes of the test and what else a program can declare: Plain derives
\* from OptionsBase and declares what Config declares, Shadow redeclares an
\* attribute of Config under another name, DupRo and DupSub declare a name twice.
Classes == {"Config", "ConfigDefault", "RoDefault", "BadDefault", "Dup",
            "Plain", "Shadow", "DupRo", "DupSub"}

\* The base class of a class: the test's classes derive from Options, Options
\* from OptionsBase; "dict" stands for any object that is no container.
Base(T) ==
    CASE T \in {"ConfigDefault", "RoDefault", "BadDefault", "Shadow", "DupSub"} -> "Config"
      [] T \in {"Config", "Dup", "DupRo"} -> "Options"
      [] T \in {"Options", "Plain"} -> "OptionsBase"
      [] OTHER -> "object"

\* The Option attributes a class statement itself declares.
OwnOptions(T) ==
    CASE T \in {"Config", "Plain"} ->
            ("server" :> option("url", "filter_type", None))
         @@ ("ident" :> readonly_option("id", None))
         @@ ("mode" :> option("mode", "limit", None))
      [] T = "ConfigDefault" ->
            ("server" :> option("url", "filter_type", 2))
         @@ ("mode" :> option("mode", "limit", 1))
         @@ ("flag" :> option("flag", "limit", 0))
      [] T = "RoDefault" ->
            ("ident" :> readonly_option("id", 3))
      [] T = "BadDefault" ->
            ("server" :> option("url", "filter_type", 4))
      [] T = "Dup" ->
            ("alpha" :> option("name", "None", None))
         @@ ("beta" :> option("name", "None", None))
      [] T = "Shadow" ->
            ("mode" :> option("flag", "limit", None))
      [] T = "DupRo" ->
            ("alpha" :> readonly_option("name", 5))
         @@ ("beta" :> option("name", "None", None))
      [] T = "DupSub" ->
            ("alias" :> option("url", "None", None))
      [] OTHER -> [a \in {} |-> 0]

\* issubclass(T, U)
RECURSIVE IsSubclass(_, _)
IsSubclass(T, U) ==
    IF T = U THEN TRUE
    ELSE IF T = "object" THEN FALSE
    ELSE IsSubclass(Base(T), U)

\* dir() lists attribute names in sorted order.
AttrOrder == <<"alias", "alpha", "beta", "flag", "ident", "mode", "server">>

\* getattr(cls, attr) for every attribute that is an Option: the nearest
\* declaration along the bases.
RECURSIVE ClassDict(_)
ClassDict(T) ==
    IF T = "object" THEN [a \in {} |-> 0]
    ELSE OwnOptions(T) @@ ClassDict(Base(T))

ClassDicts == [T \in Classes |-> ClassDict(T)]

\* The attribute names of T that are Options.
Attrs(T) == DOMAIN ClassDicts[T]

\* getattr(self.__class__, attr)
ClassAttr(T, attr) == ClassDicts[T][attr]

\* OptionsBase.options(): the (attr, Option) pairs of the class, in dir() order.
OptionsOf(T) ==
    LET present == SelectSeq(AttrOrder, LAMBDA a : a \in Attrs(T))
    IN  [i \in 1..Len(present) |-> [attr |-> present[i], opt |-> ClassAttr(T, present[i])]]

OptionsTable == [T \in Classes |-> OptionsOf(T)]

options(T) == OptionsTable[T]

AllAttrs == {AttrOrder[i] : i \in 1..Len(AttrOrder)}
KeyOrder == <<"flag", "id", "mode", "name", "url">>
Keys == {KeyOrder[i] : i \in 1..Len(KeyOrder)}

\* The position of a storage key in KeyOrder.
KeyPos == [k \in Keys |-> CHOOSE i \in 1..Len(KeyOrder) : KeyOrder[i] = k]

---------------------------------------------------------------------------
(* Objects.                                                                *)

\* References: the declared defaults come first, then one reference per
\* (container, key) slot, then the objects an operation has just made.
SlotRef == [c \in Containers |-> [k \in Keys |->
               Cardinality(DefRefs) + (c - 1) * Len(KeyOrder) + (KeyPos[k] - 1)]]

SlotRefs == {SlotRef[c][k] : c \in Containers, k \in Keys}

\* The (container, key) slot of a slot reference.
SlotOf == [r \in SlotRefs |-> CHOOSE s \in Containers \X Keys : SlotRef[s[1]][s[2]] = r]

TempBase == Cardinality(DefRefs) + Cardinality(SlotRefs)

\* A reference no object of the heap has.
NewRef(hp) ==
    CHOOSE r \in TempBase..(TempBase + Cardinality(DOMAIN hp)) :
        /\ r \notin DOMAIN hp
        /\ \A q \in TempBase..(r - 1) : q \in DOMAIN hp

\* A new object with content v.
Alloc(hp, v) == [heap |-> hp @@ (NewRef(hp) :> v), ref |-> NewRef(hp)]

\* copy.deepcopy(value): a new object with the same content.
deepcopy(hp, ref) == Alloc(hp, hp[ref])

EmptyDict == [k \in {} |-> 0]

---------------------------------------------------------------------------
(* Validators (set_filter): "None", "False" (read-only) or a callable.     *)

\* hasattr(set_filter, "__call__")
IsCallable(set_filter) == set_filter \in {"filter_type", "limit"}

\* Calling the wrapped set filter on an object: the exception it raises ("" for
\* none), the object it returns and the heap afterwards.
\*   filter_type(str): raises TypeError unless the value is a str, returns it.
\*   limit: raises InterruptedSetOption on 0, returns the value capped at 1.
wrap_set_filter(set_filter, hp, value) ==
    CASE set_filter = "filter_type" ->
            IF hp[value] >= 1
            THEN [exc |-> "", value |-> value, heap |-> hp]
            ELSE [exc |-> "TypeError", value |-> None, heap |-> hp]
      [] set_filter = "limit" ->
            IF hp[value] = 0
            THEN [exc |-> "InterruptedSetOption", value |-> None, heap |-> hp]
            ELSE IF hp[value] <= 1
            THEN [exc |-> "", value |-> value, heap |-> hp]
            ELSE LET a == Alloc(hp, 1) IN [exc |-> "", value |-> a.ref, heap |-> a.heap]

---------------------------------------------------------------------------
(* OptionsBase raw accessors on one container's dict.                      *)

\* OptionsBase.fget
fget(self, name) ==
    IF name \notin DOMAIN self
    THEN [exc |-> "UnsetOption", ret |-> None]
    ELSE [exc |-> "", ret |-> self[name]]

\* OptionsBase.fset
fset(self, name, value) ==
    [k \in DOMAIN self \cup {name} |-> IF k = name THEN value ELSE self[k]]

\* fdelete that returns when the key is missing.
fdelete_ignores_missing(self, name) ==
    [exc |-> "", opts |-> [k \in DOMAIN self \ {name} |-> self[k]]]

\* OptionsBase.fdelete
fdelete(self, name) ==
    IF name \notin DOMAIN self
    THEN [exc |-> "UnsetOption", opts |-> self]
    ELSE [exc |-> "", opts |-> [k \in DOMAIN self \ {name} |-> self[k]]]

\* Options.fget, Options.fset, Options.fdelete: the accessors of the sealed class.
Options_fget(self, name) == [exc |-> "AttributeError", ret |-> None]

\* Options.fset that writes as OptionsBase.fset does.
Options_fset_writes(self, name, value) == [exc |-> "", opts |-> fset(self, name, value)]

Options_fset(self, name, value) == [exc |-> "AttributeError", opts |-> self]

Options_fdelete(self, name) == [exc |-> "AttributeError", opts |-> self]

---------------------------------------------------------------------------
(* Option's property functions.                                            *)

\* _wrap_setter without the read-only branch: a read-only option is written.
_wrap_setter_writes_readonly(self, hp, opt, value) ==
    IF IsCallable(opt.set_filter)
    THEN LET f == wrap_set_filter(opt.set_filter, hp, value)
         IN  IF f.exc = "InterruptedSetOption"
             THEN [exc |-> "", opts |-> self, heap |-> hp]
             ELSE IF f.exc # ""
             THEN [exc |-> f.exc, opts |-> self, heap |-> hp]
             ELSE [exc |-> "", opts |-> fset(self, opt.name, f.value), heap |-> f.heap]
    ELSE [exc |-> "", opts |-> fset(self, opt.name, value), heap |-> hp]

\* _wrap_setter that, when the filter interrupts, still writes the value given.
_wrap_setter_ignores_interrupt(self, hp, opt, value) ==
    IF IsCallable(opt.set_filter)
    THEN LET f == wrap_set_filter(opt.set_filter, hp, value)
         IN  IF f.exc = "InterruptedSetOption"
             THEN [exc |-> "", opts |-> fset(self, opt.name, value), heap |-> hp]
             ELSE IF f.exc # ""
             THEN [exc |-> f.exc, opts |-> self, heap |-> hp]
             ELSE [exc |-> "", opts |-> fset(self, opt.name, f.value), heap |-> f.heap]
    ELSE IF opt.set_filter = "False"
    THEN [exc |-> "ValueError", opts |-> self, heap |-> hp]
    ELSE [exc |-> "", opts |-> fset(self, opt.name, value), heap |-> hp]

\* _wrap_setter that writes the value given instead of the filter's result.
_wrap_setter_drops_result(self, hp, opt, value) ==
    IF IsCallable(opt.set_filter)
    THEN LET f == wrap_set_filter(opt.set_filter, hp, value)
         IN  IF f.exc = "InterruptedSetOption"
             THEN [exc |-> "", opts |-> self, heap |-> hp]
             ELSE IF f.exc # ""
             THEN [exc |-> f.exc, opts |-> self, heap |-> hp]
             ELSE [exc |-> "", opts |-> fset(self, opt.name, value), heap |-> hp]
    ELSE IF opt.set_filter = "False"
    THEN [exc |-> "ValueError", opts |-> self, heap |-> hp]
    ELSE [exc |-> "", opts |-> fset(self, opt.name, value), heap |-> hp]

\* Option.__init__._wrap_setter
_wrap_setter(self, hp, opt, value) ==
    IF IsCallable(opt.set_filter)
    THEN LET f == wrap_set_filter(opt.set_filter, hp, value)
         IN  IF f.exc = "InterruptedSetOption"
             THEN [exc |-> "", opts |-> self, heap |-> hp]
             ELSE IF f.exc # ""
             THEN [exc |-> f.exc, opts |-> self, heap |-> hp]
             ELSE [exc |-> "", opts |-> fset(self, opt.name, f.value), heap |-> f.heap]
    ELSE IF opt.set_filter = "False"
    THEN [exc |-> "ValueError", opts |-> self, heap |-> hp]
    ELSE [exc |-> "", opts |-> fset(self, opt.name, value), heap |-> hp]

\* Option.__init__._wrap_getter
_wrap_getter(self, hp, opt) ==
    LET g == fget(self, opt.name)
    IN  IF g.exc = ""
        THEN [exc |-> "", ret |-> g.ret, opts |-> self, heap |-> hp]
        ELSE IF opt.default_value # None
        THEN LET d == deepcopy(hp, opt.default_value)
                 s == _wrap_setter(self, d.heap, opt, d.ref)
                 g2 == fget(s.opts, opt.name)
             IN  IF s.exc # ""
                 THEN [exc |-> s.exc, ret |-> None, opts |-> self, heap |-> hp]
                 ELSE [exc |-> g2.exc, ret |-> g2.ret, opts |-> s.opts, heap |-> s.heap]
        ELSE [exc |-> "UnsetOption", ret |-> None, opts |-> self, heap |-> hp]

\* _wrap_deleter that resets a defaulted option to its default and keeps the key.
_wrap_deleter_resets(self, hp, opt) ==
    LET d == deepcopy(hp, opt.default_value)
        s == _wrap_setter(self, d.heap, opt, d.ref)
    IN  IF opt.default_value # None
        THEN [exc |-> s.exc, opts |-> s.opts, heap |-> s.heap]
        ELSE [exc |-> fdelete(self, opt.name).exc, opts |-> fdelete(self, opt.name).opts,
              heap |-> hp]

\* Option.__init__._wrap_deleter
_wrap_deleter(self, hp, opt) ==
    LET d == deepcopy(hp, opt.default_value)
        s == IF opt.default_value # None
             THEN _wrap_setter(self, d.heap, opt, d.ref)
             ELSE [exc |-> "", opts |-> self, heap |-> hp]
        x == fdelete(s.opts, opt.name)
    IN  IF s.exc # ""
        THEN [exc |-> s.exc, opts |-> self, heap |-> hp]
        ELSE [exc |-> x.exc, opts |-> x.opts, heap |-> s.heap]

---------------------------------------------------------------------------
(* OptionsBase: the container operations on dicts of references.           *)

\* from_options that updates before it checks the type.
from_options_updates_first(T, self, otherT, other) ==
    [exc |-> IF ~IsSubclass(otherT, "OptionsBase") \/ ~IsSubclass(T, otherT)
             THEN "TypeError" ELSE "",
     opts |-> [k \in DOMAIN self \cup DOMAIN other |->
                  IF k \in DOMAIN other THEN other[k] ELSE self[k]]]

\* from_options that keeps self's value for a key both dicts have.
from_options_keeps_own(T, self, otherT, other) ==
    IF ~IsSubclass(otherT, "OptionsBase") \/ ~IsSubclass(T, otherT)
    THEN [exc |-> "TypeError", opts |-> self]
    ELSE [exc |-> "",
          opts |-> [k \in DOMAIN self \cup DOMAIN other |->
                        IF k \in DOMAIN self THEN self[k] ELSE other[k]]]

\* OptionsBase.from_options: self's dict after the update, or TypeError.
from_options(T, self, otherT, other) ==
    IF ~IsSubclass(otherT, "OptionsBase") \/ ~IsSubclass(T, otherT)
    THEN [exc |-> "TypeError", opts |-> self]
    ELSE [exc |-> "",
          opts |-> [k \in DOMAIN self \cup DOMAIN other |->
                        IF k \in DOMAIN other THEN other[k] ELSE self[k]]]

\* diff without its second loop: only the keys of self that other lacks.
diff_one_sided(T, self, otherT, other) ==
    IF ~IsSubclass(otherT, T)
    THEN [exc |-> "TypeError", ret |-> EmptyDict]
    ELSE [exc |-> "", ret |-> [k \in DOMAIN self \ DOMAIN other |-> self[k]]]

\* diff that compares type(other) with type(self) instead of isinstance.
diff_exact_type(T, self, otherT, other) ==
    IF otherT # T
    THEN [exc |-> "TypeError", ret |-> EmptyDict]
    ELSE [exc |-> "",
          ret |-> [k \in (DOMAIN self \ DOMAIN other) \cup (DOMAIN other \ DOMAIN self) |->
                       IF k \in DOMAIN self THEN self[k] ELSE other[k]]]

\* OptionsBase.diff: the dict returned, or TypeError.
diff(T, self, otherT, other) ==
    IF ~IsSubclass(otherT, T)
    THEN [exc |-> "TypeError", ret |-> EmptyDict]
    ELSE [exc |-> "",
          ret |-> [k \in (DOMAIN self \ DOMAIN other) \cup (DOMAIN other \ DOMAIN self) |->
                       IF k \in DOMAIN self THEN self[k] ELSE other[k]]]

\* OptionsBase.is_set: name is a str or an Option.
is_set(self, name) ==
    LET key == IF name.type = "Option" THEN name.opt.name ELSE name.str
    IN  key \in DOMAIN self

\* OptionsBase.clear
clear(self) == EmptyDict

\* build that keys the dict by attribute name (server for url, ident for id).
build_by_handle(self) ==
    LET handle(k) == IF k = "url" THEN "server" ELSE IF k = "id" THEN "ident" ELSE k
    IN  [a \in {handle(k) : k \in DOMAIN self} |->
            self[CHOOSE k \in DOMAIN self : handle(k) = a]]

\* OptionsBase.build
build(self) == [k \in DOMAIN self |-> self[k]]

\* OptionsBase.__init__, the loop over self.options() from its i-th pair on.
RECURSIVE InitLoop(_, _, _, _, _)
InitLoop(T, i, self, hp, name_opts) ==
    IF i > Len(options(T))
    THEN [exc |-> "", opts |-> self, heap |-> hp]
    ELSE LET opt == options(T)[i].opt
             d == deepcopy(hp, opt.default_value)
             s == IF opt.default_value # None
                  THEN _wrap_setter(self, d.heap, opt, d.ref)
                  ELSE [exc |-> "", opts |-> self, heap |-> hp]
         IN  IF s.exc # ""
             THEN [exc |-> s.exc, opts |-> self, heap |-> hp]
             ELSE IF opt.name \in name_opts
             THEN [exc |-> "DuplicateOptionName", opts |-> self, heap |-> hp]
             ELSE InitLoop(T, i + 1, s.opts, s.heap, name_opts \cup {opt.name})

\* OptionsBase.__init__(options): the new instance's dict, or the exception
\* that leaves no instance. srcT is "None" when no options are given.
__init__(T, hp, srcT, src) ==
    LET f == IF srcT = "None"
             THEN [exc |-> "", opts |-> EmptyDict]
             ELSE from_options(T, EmptyDict, srcT, src)
    IN  IF f.exc # ""
        THEN [exc |-> f.exc, opts |-> EmptyDict, heap |-> hp]
        ELSE InitLoop(T, 1, f.opts, hp, {})

---------------------------------------------------------------------------
(* The state: the instances alive, their dicts, the heap.                  *)

\* Whether container c holds object r under key k.
Holds(o, c, k, r) == k \in DOMAIN o[c] /\ o[c][k] = r

\* The first container that holds, under key k, the object c holds under k.
\* (An object is only ever held under one key: NoCrossKey.)
Owner(o, c, k) ==
    CHOOSE b \in Containers :
        /\ Holds(o, b, k, o[c][k])
        /\ \A a \in Containers : a < b => ~Holds(o, a, k, o[c][k])

\* Garbage collection and canonical numbering: the objects no dict holds are
\* dropped (the declared defaults stay), and each of the others is named by
\* the first (container, key) slot that holds it.
Canon(o, hp) ==
    LET owned == {r \in SlotRefs :
                     LET c == SlotOf[r][1]
                         k == SlotOf[r][2]
                     IN  k \in DOMAIN o[c] /\ o[c][k] \notin DefRefs /\ Owner(o, c, k) = c}
    IN  [opts |-> [c \in Containers |-> [k \in DOMAIN o[c] |->
                      IF o[c][k] \in DefRefs THEN o[c][k] ELSE SlotRef[Owner(o, c, k)][k]]],
         heap |-> [r \in DefRefs \cup owned |->
                      IF r \in DefRefs THEN hp[r]
                      ELSE hp[o[SlotOf[r][1]][SlotOf[r][2]]]]]

\* What the last call was and how it ended: exc is the exception raised ("" for
\* a normal return), ret the content of the object returned, flag a returned
\* bool, dict a returned dict (key -> content).
Call(op, c, o, attr, how, arg, exc, ret, flag, dict) ==
    [op |-> op, c |-> c, o |-> o, attr |-> attr, how |-> how, arg |-> arg,
     exc |-> exc, ret |-> ret, flag |-> flag, dict |-> dict]

Alive == {c \in Containers : ctype[c] # "None"}

\* No object is held under two different keys.
NoCrossKey ==
    \A a, b \in Containers : \A j \in DOMAIN opts[a] : \A k \in DOMAIN opts[b] :
        opts[a][j] = opts[b][k] => j = k

\* The content of a reference that may be None.
Content(hp, ref) == IF ref = None THEN None ELSE hp[ref]

\* The next state: container c's dict becomes self, the heap hp.
Commit(c, self, hp, call) ==
    /\ IF self = opts[c]
       THEN UNCHANGED <<opts, heap>>
       ELSE LET n == Canon([opts EXCEPT ![c] = self], hp)
            IN  opts' = n.opts /\ heap' = n.heap
    /\ last' = call

Init ==
    /\ ctype = [c \in Containers |-> "None"]
    /\ opts = [c \in Containers |-> EmptyDict]
    /\ heap = DeclaredDefaults
    /\ last = Call("start", 0, 0, "", "", None, "", None, FALSE, EmptyDict)

\* c = T() or c = T(o): on an exception no instance comes to exist.
Construct(c, T, o) ==
    /\ ctype[c] = "None"
    /\ \A b \in Containers : b < c => ctype[b] # "None"
    /\ o \in Alive \cup {0}
    /\ LET r == __init__(T, heap, IF o = 0 THEN "None" ELSE ctype[o],
                         IF o = 0 THEN EmptyDict ELSE opts[o])
           call == Call("construct", c, o, T, "", None, r.exc, None, FALSE, EmptyDict)
       IN  IF r.exc = ""
           THEN /\ ctype' = [ctype EXCEPT ![c] = T]
                /\ Commit(c, r.opts, r.heap, call)
           ELSE /\ ctype' = ctype
                /\ Commit(c, EmptyDict, heap, call)

\* c.attr = value, value a new object with content v.
Set(c, attr, v) ==
    /\ c \in Alive
    /\ attr \in Attrs(ctype[c])
    /\ LET a == Alloc(heap, v)
           r == _wrap_setter(opts[c], a.heap, ClassAttr(ctype[c], attr), a.ref)
       IN  Commit(c, r.opts, r.heap,
                  Call("set", c, 0, attr, "", v, r.exc, None, FALSE, EmptyDict))
    /\ UNCHANGED ctype

\* c.attr
Get(c, attr) ==
    /\ c \in Alive
    /\ attr \in Attrs(ctype[c])
    /\ LET r == _wrap_getter(opts[c], heap, ClassAttr(ctype[c], attr))
       IN  Commit(c, r.opts, r.heap,
                  Call("get", c, 0, attr, "", None, r.exc, Content(r.heap, r.ret),
                       FALSE, EmptyDict))
    /\ UNCHANGED ctype

\* del c.attr
Delete(c, attr) ==
    /\ c \in Alive
    /\ attr \in Attrs(ctype[c])
    /\ LET r == _wrap_deleter(opts[c], heap, ClassAttr(ctype[c], attr))
       IN  Commit(c, r.opts, r.heap,
                  Call("delete", c, 0, attr, "", None, r.exc, None, FALSE, EmptyDict))
    /\ UNCHANGED ctype

\* c.is_set("attr") and c.is_set(T.attr)
IsSet(c, attr, how) ==
    /\ c \in Alive
    /\ attr \in Attrs(ctype[c])
    /\ LET name == IF how = "Option"
                   THEN [type |-> "Option", opt |-> ClassAttr(ctype[c], attr)]
                   ELSE [type |-> "str", str |-> attr]
       IN  Commit(c, opts[c], heap,
                  Call("is_set", c, 0, attr, how, None, "", None,
                       is_set(opts[c], name), EmptyDict))
    /\ UNCHANGED ctype

\* c.clear()
Clear(c) ==
    /\ c \in Alive
    /\ Commit(c, clear(opts[c]), heap,
              Call("clear", c, 0, "", "", None, "", None, FALSE, EmptyDict))
    /\ UNCHANGED ctype

\* c.diff(o); o = 0 is an object that is no container.
Diff(c, o) ==
    /\ c \in Alive
    /\ o \in Alive \cup {0}
    /\ LET r == diff(ctype[c], opts[c], IF o = 0 THEN "dict" ELSE ctype[o],
                     IF o = 0 THEN EmptyDict ELSE opts[o])
       IN  Commit(c, opts[c], heap,
                  Call("diff", c, o, "", "", None, r.exc, None, FALSE,
                       [k \in DOMAIN r.ret |-> heap[r.ret[k]]]))
    /\ UNCHANGED ctype

\* c.from_options(o); o = 0 is an object that is no container.
FromOptions(c, o) ==
    /\ c \in Alive
    /\ o \in Alive \cup {0}
    /\ LET r == from_options(ctype[c], opts[c], IF o = 0 THEN "dict" ELSE ctype[o],
                             IF o = 0 THEN EmptyDict ELSE opts[o])
       IN  Commit(c, r.opts, heap,
                  Call("from_options", c, o, "", "", None, r.exc, None, FALSE, EmptyDict))
    /\ UNCHANGED ctype

\* c.build()
Build(c) ==
    /\ c \in Alive
    /\ Commit(c, opts[c], heap,
              Call("build", c, 0, "", "", None, "", None, FALSE,
                   [k \in DOMAIN build(opts[c]) |-> heap[build(opts[c])[k]]]))
    /\ UNCHANGED ctype

\* The storage keys of the Options of class T.
StorageKeys(T) == {ClassAttr(T, a).name : a \in Attrs(T)}

\* c.fget(name): the method the class of c resolves fget to.
RawGet(c, name) ==
    /\ c \in Alive
    /\ name \in StorageKeys(ctype[c])
    /\ LET r == IF IsSubclass(ctype[c], "Options")
                THEN Options_fget(opts[c], name)
                ELSE fget(opts[c], name)
       IN  Commit(c, opts[c], heap,
                  Call("fget", c, 0, name, "", None, r.exc, Content(heap, r.ret),
                       FALSE, EmptyDict))
    /\ UNCHANGED ctype

\* c.fset(name, value), value a new object with content v.
RawSet(c, name, v) ==
    /\ c \in Alive
    /\ name \in StorageKeys(ctype[c])
    /\ LET a == Alloc(heap, v)
           r == IF IsSubclass(ctype[c], "Options")
                THEN Options_fset(opts[c], name, a.ref)
                ELSE [exc |-> "", opts |-> fset(opts[c], name, a.ref)]
       IN  Commit(c, r.opts, a.heap,
                  Call("fset", c, 0, name, "", v, r.exc, None, FALSE, EmptyDict))
    /\ UNCHANGED ctype

\* c.fdelete(name)
RawDelete(c, name) ==
    /\ c \in Alive
    /\ name \in StorageKeys(ctype[c])
    /\ LET r == IF IsSubclass(ctype[c], "Options")
                THEN Options_fdelete(opts[c], name)
                ELSE fdelete(opts[c], name)
       IN  Commit(c, r.opts, heap,
                  Call("fdelete", c, 0, name, "", None, r.exc, None, FALSE, EmptyDict))
    /\ UNCHANGED ctype

\* c.attr is read and the object it returns is changed in place (as a list is
\* by append) to content v: the getter returns the stored object itself.
Mutate(c, attr, v) ==
    /\ c \in Alive
    /\ attr \in Attrs(ctype[c])
    /\ LET r == _wrap_getter(opts[c], heap, ClassAttr(ctype[c], attr))
           call == Call("mutate", c, 0, attr, "", v, r.exc, None, FALSE, EmptyDict)
       IN  IF r.exc # ""
           THEN Commit(c, opts[c], heap, call)
           ELSE LET n == Canon([opts EXCEPT ![c] = r.opts], [r.heap EXCEPT ![r.ret] = v])
                IN  opts' = n.opts /\ heap' = n.heap /\ last' = call
    /\ UNCHANGED ctype

\* The calls a program makes on one container (self is container 1; other is
\* self or no container).
Next ==
    \/ \E T \in Classes : Construct(1, T, 0)
    \/ \E attr \in AllAttrs, v \in Val : Set(1, attr, v)
    \/ \E attr \in AllAttrs : Get(1, attr)
    \/ \E attr \in AllAttrs : Delete(1, attr)
    \/ \E attr \in AllAttrs, how \in {"str", "Option"} : IsSet(1, attr, how)
    \/ Clear(1)
    \/ \E o \in {0, 1} : Diff(1, o)
    \/ \E o \in {0, 1} : FromOptions(1, o)
    \/ Build(1)
    \/ \E name \in Keys : RawGet(1, name)
    \/ \E name \in Keys, v \in Val : RawSet(1, name, v)
    \/ \E name \in Keys : RawDelete(1, name)

Spec == Init /\ [][Next]_vars

\* The classes of the test (and the classes derived from them whose
\* construction raises).
PairClasses == {"Config", "ConfigDefault", "RoDefault", "BadDefault", "Dup"}

\* The calls a program makes on two containers, each of which can be self and
\* other of a call.
NextPair ==
    \/ \E c \in Containers, T \in PairClasses, o \in Containers \cup {0} : Construct(c, T, o)
    \/ \E c \in Containers, attr \in AllAttrs, v \in Val : Set(c, attr, v)
    \/ \E c \in Containers, attr \in AllAttrs : Get(c, attr)
    \/ \E c \in Containers, attr \in AllAttrs : Delete(c, attr)
    \/ \E c \in Containers : Clear(c)
    \/ \E c \in Containers, o \in Containers \cup {0} : Diff(c, o)
    \/ \E c \in Containers, o \in Containers \cup {0} : FromOptions(c, o)
    \/ \E c \in Containers : Build(c)

SpecPair == Init /\ [][NextPair]_vars

\* A class and a class derived from it that redeclares one of its attributes.
SubClasses == {"Config", "Shadow"}

\* The calls of a program that uses a class together with a class derived from it.
NextSub ==
    \/ \E c \in Containers, T \in SubClasses, o \in Containers \cup {0} : Construct(c, T, o)
    \/ \E c \in Containers, attr \in AllAttrs, v \in Val : Set(c, attr, v)
    \/ \E c \in Containers, attr \in AllAttrs : Get(c, attr)
    \/ \E c \in Containers, attr \in AllAttrs : Delete(c, attr)
    \/ \E c \in Containers : Clear(c)
    \/ \E c \in Containers, o \in Containers \cup {0} : FromOptions(c, o)

SpecSub == Init /\ [][NextSub]_vars

\* The calls of a program that changes stored objects in place.
NextShare ==
    \/ \E c \in Containers, o \in Containers \cup {0} : Construct(c, "Config", o)
    \/ \E c \in Containers, attr \in AllAttrs, v \in Val : Set(c, attr, v)
    \/ \E c \in Containers, attr \in AllAttrs : Delete(c, attr)
    \/ \E c \in Containers : Clear(c)
    \/ \E c \in Containers, o \in Containers \cup {0} : FromOptions(c, o)
    \/ \E c \in Containers, attr \in AllAttrs, v \in Val : Mutate(c, attr, v)

SpecShare == Init /\ [][NextShare]_vars

---------------------------------------------------------------------------
(* What the claims speak of.                                               *)

\* The Option a field call (set, get, delete, is_set) went through.
OptOf(call) == ClassAttr(ctype[call.c], call.attr)

HasDefault(opt) == opt.default_value # None

\* The content the class statement gave the default of a defaulted Option.
DefaultOf(opt) == DeclaredDefaults[opt.default_value]

\* export(): build(), by content.
Export(c) == [k \in DOMAIN opts[c] |-> heap[opts[c][k]]]

\* export() after the step.
NewExport(c) == [k \in DOMAIN opts'[c] |-> heap'[opts'[c][k]]]

\* What the Option's validator does with a value of content v: the exception
\* it raises ("" for none) and the content it returns.
Validate(opt, v) ==
    IF IsCallable(opt.set_filter)
    THEN LET a == Alloc(heap, v)
             f == wrap_set_filter(opt.set_filter, a.heap, a.ref)
         IN  [exc |-> f.exc, val |-> Content(f.heap, f.value)]
    ELSE IF opt.set_filter = "False"
    THEN [exc |-> "ValueError", val |-> None]
    ELSE [exc |-> "", val |-> v]

\* Container c's dict after the step agrees with the one before on every key but key.
SameButKey(c, key) ==
    /\ DOMAIN opts'[c] \ {key} = DOMAIN opts[c] \ {key}
    /\ \A k \in DOMAIN opts[c] \ {key} : heap'[opts'[c][k]] = heap[opts[c][k]]

---------------------------------------------------------------------------
(* C1 *)

C1_DeleteDefaultedStep ==
    LET call == last'
        opt == OptOf(call)
    IN  /\ (call.op = "delete" /\ HasDefault(opt)) =>
              /\ Validate(opt, DefaultOf(opt)).exc = "" => call.exc = ""
              /\ call.exc = "" =>
                    /\ ~is_set(opts'[call.c], [type |-> "Option", opt |-> opt])
                    /\ opt.name \notin DOMAIN NewExport(call.c)
                    /\ SameButKey(call.c, opt.name)
        /\ (/\ last.op = "delete" /\ last.exc = ""
            /\ call.op = "get" /\ call.c = last.c /\ call.attr = last.attr
            /\ HasDefault(opt) /\ Validate(opt, DefaultOf(opt)).exc = "") =>
              /\ call.exc = ""
              /\ call.ret = Validate(opt, DefaultOf(opt)).val
              /\ NewExport(call.c)[opt.name] = call.ret

---------------------------------------------------------------------------
(* C2 *)

\* C2: every set on a read-only field raises the write-rejection error
\* (ValueError) and export() is the same after it as before it.
C2_ReadonlySetStep ==
    (last'.op = "set" /\ OptOf(last').set_filter = "False") =>
        /\ last'.exc = "ValueError"
        /\ NewExport(last'.c) = Export(last'.c)
        /\ opts' = opts

C2_ReadonlySet == [][C2_ReadonlySetStep]_vars

\* A set on a read-only field of a container that holds values was rejected.
C2_Witness ==
    /\ last.op = "set" /\ last.exc = "ValueError"
    /\ OptOf(last).set_filter = "False"
    /\ DOMAIN opts[last.c] # {}

---------------------------------------------------------------------------
(* C3 *)

\* C3: when the validator raises InterruptedSetOption during set, set returns
\* without raising and every key and value of the dict is as before.
C3_InterruptedSetStep ==
    (last'.op = "set" /\ Validate(OptOf(last'), last'.arg).exc = "InterruptedSetOption") =>
        /\ last'.exc = ""
        /\ opts' = opts
        /\ heap' = heap

C3_InterruptedSet == [][C3_InterruptedSetStep]_vars

\* A set was interrupted on a field that held a value.
C3_Witness ==
    /\ last.op = "set" /\ last.exc = ""
    /\ Validate(OptOf(last), last.arg).exc = "InterruptedSetOption"
    /\ OptOf(last).name \in DOMAIN opts[last.c]

---------------------------------------------------------------------------
(* C4 *)

\* C4 as stated: after a set(v) on a field with no default that returned and was
\* not interrupted, get returns exactly v and export() maps the key to v.
C4_SetStoresArgument ==
    (/\ last.op = "set" /\ last.exc = ""
     /\ ~HasDefault(OptOf(last))
     /\ Validate(OptOf(last), last.arg).exc = "") =>
        /\ OptOf(last).name \in DOMAIN opts[last.c]
        /\ Export(last.c)[OptOf(last).name] = last.arg

\* C4 amended: for a field with no default, get on a container constructed
\* without a source, and on any container whose dict lacks the key, raises
\* UnsetOption; after a set(v) the validator accepts, export() maps the key to the
\* value the validator returned for v (v itself when the validator returns its
\* argument), and get returns exactly the value the dict holds.
C4_NoDefaultStep ==
    LET call == last'
        opt == OptOf(call)
    IN  /\ (call.op = "construct" /\ call.exc = "" /\ call.o = 0) =>
              \A a \in Attrs(call.attr) :
                  ~HasDefault(ClassAttr(call.attr, a)) =>
                      ClassAttr(call.attr, a).name \notin DOMAIN opts'[call.c]
        /\ (call.op = "get" /\ ~HasDefault(opt)) =>
              IF opt.name \in DOMAIN opts[call.c]
              THEN call.exc = "" /\ call.ret = Export(call.c)[opt.name] /\ opts' = opts
              ELSE call.exc = "UnsetOption" /\ opts' = opts
        /\ (/\ call.op = "set" /\ ~HasDefault(opt)
            /\ Validate(opt, call.arg).exc = "") =>
              /\ call.exc = ""
              /\ opt.name \in DOMAIN opts'[call.c]
              /\ NewExport(call.c)[opt.name] = Validate(opt, call.arg).val
              /\ SameButKey(call.c, opt.name)

C4_NoDefault == [][C4_NoDefaultStep]_vars

\* A set on a field with no default stored a value other than the one given.
C4_Witness ==
    /\ last.op = "set" /\ last.exc = ""
    /\ ~HasDefault(OptOf(last))
    /\ OptOf(last).name \in DOMAIN opts[last.c]
    /\ Export(last.c)[OptOf(last).name] # last.arg

---------------------------------------------------------------------------
(* C5 *)

\* C5: get of a field with a default d on a freshly constructed container returns
\* a value equal to d that is another object than the declared default and than
\* any value another container holds, and the declared default is as declared.
C5_FreshGetStep ==
    LET call == last'
        opt == OptOf(call)
    IN  (/\ last.op = "construct" /\ last.exc = ""
         /\ call.op = "get" /\ call.c = last.c
         /\ HasDefault(opt)) =>
            /\ call.exc = ""
            /\ call.ret = DefaultOf(opt)
            /\ opt.name \in DOMAIN opts'[call.c]
            /\ opts'[call.c][opt.name] \notin DefRefs
            /\ \A b \in Containers \ {call.c} : \A k \in DOMAIN opts'[b] :
                   opts'[b][k] # opts'[call.c][opt.name]
            /\ heap'[opt.default_value] = DefaultOf(opt)

C5_FreshGetIsCopyOfDefault == [][C5_FreshGetStep]_vars

---------------------------------------------------------------------------
(* C6 *)

\* The storage keys of the Options of class T are pairwise distinct.
DistinctNames(T) ==
    \A i, j \in 1..Len(options(T)) :
        options(T)[i].opt.name = options(T)[j].opt.name => i = j

\* C6: materializing a default does not apply the validator: construction (here
\* without a source) and get of a defaulted field succeed whatever the validator
\* would do with the default, and the dict then holds a value equal to it.
C6_DefaultsBypassValidator ==
    /\ (last.op = "construct" /\ last.o = 0 /\ DistinctNames(last.attr)) =>
          /\ last.exc = ""
          /\ \A a \in Attrs(last.attr) :
                 HasDefault(ClassAttr(last.attr, a)) =>
                     /\ ClassAttr(last.attr, a).name \in DOMAIN opts[last.c]
                     /\ Export(last.c)[ClassAttr(last.attr, a).name]
                            = DefaultOf(ClassAttr(last.attr, a))
    /\ (last.op = "get" /\ HasDefault(OptOf(last))) =>
          /\ last.exc = ""
          /\ OptOf(last).name \in DOMAIN opts[last.c]

---------------------------------------------------------------------------
(* C7 *)

\* C7: a call that raises leaves every dict as it was: no key is added, removed
\* or changed in either container, and no instance comes to exist.
C7_FailureStep ==
    last'.exc # "" => (opts' = opts /\ heap' = heap /\ ctype' = ctype)

C7_FailureLeavesStore == [][C7_FailureStep]_vars

\* from_options was refused between two containers that both hold values.
C7_Witness ==
    /\ last.op = "from_options" /\ last.exc = "TypeError"
    /\ last.o # 0
    /\ DOMAIN opts[last.o] # {}
    /\ DOMAIN opts[last.c] # {}

---------------------------------------------------------------------------
(* C8 *)

\* C8: is_set, given the attribute name of a field or its Option, returns true
\* iff the field's storage key has an entry in the dict, and does not raise.
C8_IsSetResolvesHandle ==
    last.op = "is_set" =>
        /\ last.exc = ""
        /\ last.flag = (OptOf(last).name \in DOMAIN opts[last.c])

---------------------------------------------------------------------------
(* C9 *)

\* C9: for containers a and b of the same class, a.diff(b) = b.diff(a),
\* a.diff(a) = {}, a.diff(b) holds exactly the keys that exactly one of the two
\* dicts has, each with the value of the side that has it, and neither dict is
\* modified.
C9_DiffStep ==
    LET call == last'
        a == call.c
        b == call.o
    IN  (call.op = "diff" /\ b # 0 /\ ctype[a] = ctype[b]) =>
            /\ call.exc = ""
            /\ LET ba == diff(ctype[b], opts[b], ctype[a], opts[a]).ret
               IN  call.dict = [k \in DOMAIN ba |-> heap[ba[k]]]
            /\ a = b => call.dict = EmptyDict
            /\ DOMAIN call.dict = (DOMAIN opts[a] \ DOMAIN opts[b])
                                      \cup (DOMAIN opts[b] \ DOMAIN opts[a])
            /\ \A k \in DOMAIN call.dict :
                   call.dict[k] = IF k \in DOMAIN opts[a] THEN Export(a)[k] ELSE Export(b)[k]
            /\ opts' = opts /\ heap' = heap

C9_DiffSymmetric == [][C9_DiffStep]_vars

\* A diff of two containers of one class, each holding a key the other lacks.
C9_Witness ==
    /\ last.op = "diff" /\ last.exc = ""
    /\ last.o # 0 /\ last.o # last.c
    /\ ctype[last.c] = ctype[last.o]
    /\ \E j, k \in DOMAIN last.dict :
           j \in DOMAIN opts[last.c] /\ k \in DOMAIN opts[last.o]

---------------------------------------------------------------------------
(* C10 *)

\* C10 as stated: a.diff(other) raises TypeError whenever the class of other is
\* not exactly the class of a.
C10_DiffNeedsSameClass ==
    (last.op = "diff" /\ (last.o = 0 \/ ctype[last.o] # ctype[last.c])) =>
        last.exc = "TypeError"

\* C10 amended: a.diff(other) raises TypeError exactly when other is not an
\* instance of a's class: for no container and for an instance of a superclass,
\* but not for an instance of a subclass of a's class.
C10_DiffNeedsInstance ==
    last.op = "diff" =>
        (last.exc = "TypeError" <=>
            (last.o = 0 \/ ~IsSubclass(ctype[last.o], ctype[last.c])))

\* A diff with an instance of a subclass returned; a diff with an instance of a
\* superclass would raise.
C10_Witness ==
    /\ last.op = "diff" /\ last.exc = ""
    /\ last.o # 0
    /\ ctype[last.o] # ctype[last.c]
    /\ diff(ctype[last.o], opts[last.o], ctype[last.c], opts[last.c]).exc = "TypeError"

---------------------------------------------------------------------------
(* C11 *)

\* C11: c.from_options(o) raises TypeError unless o is a container and the class
\* of c is a subclass of the class of o; when it returns, export() of c maps every
\* key of o's dict to the value export() of o maps it to, every other key of c's
\* dict keeps its value, c has no further key, and o's dict is unchanged.
C11_MergeStep ==
    LET call == last'
        c == call.c
        o == call.o
    IN  call.op = "from_options" =>
            IF o # 0 /\ IsSubclass(ctype[c], ctype[o])
            THEN /\ call.exc = ""
                 /\ DOMAIN opts'[c] = DOMAIN opts[c] \cup DOMAIN opts[o]
                 /\ \A k \in DOMAIN opts[o] :
                        /\ NewExport(c)[k] = Export(o)[k]
                        /\ NewExport(c)[k] = NewExport(o)[k]
                 /\ \A k \in DOMAIN opts[c] \ DOMAIN opts[o] :
                        NewExport(c)[k] = Export(c)[k]
                 /\ NewExport(o) = Export(o)
            ELSE call.exc = "TypeError"

C11_MergeFrom == [][C11_MergeStep]_vars

\* from_options returned on a container that holds a key the other lacks, from
\* another container that holds values.
C11_Witness ==
    /\ last.op = "from_options" /\ last.exc = ""
    /\ last.o # 0 /\ last.o # last.c
    /\ DOMAIN opts[last.o] # {}
    /\ DOMAIN opts[last.c] \ DOMAIN opts[last.o] # {}
    /\ \A k \in DOMAIN opts[last.o] : Export(last.c)[k] = Export(last.o)[k]

---------------------------------------------------------------------------
(* C12 *)

\* C12: no two containers share stored state: a change made through one container
\* (a set, a delete, a clear or an in-place change of a stored object) never
\* changes what export() of another container returns, also after from_options
\* and after construction from a source.
C12_NoSharedStep ==
    last'.op \in {"set", "delete", "clear", "mutate"} =>
        \A b \in Containers \ {last'.c} : NewExport(b) = Export(b)

C12_NoSharedState == [][C12_NoSharedStep]_vars

---------------------------------------------------------------------------
(* C13 *)

\* The storage keys of the Options that class T and its base classes declare.
RECURSIVE DeclaredKeys(_)
DeclaredKeys(T) ==
    IF T = "object" THEN {}
    ELSE {OwnOptions(T)[a].name : a \in DOMAIN OwnOptions(T)} \cup DeclaredKeys(Base(T))

---------------------------------------------------------------------------
(* C14 *)

\* C14: constructing an instance of a class that declares two attributes with one
\* storage key raises DuplicateOptionName whatever the defaults and validators
\* are (with no source, or a source the class accepts) and leaves no instance;
\* constructing an instance of a class whose storage keys are pairwise distinct
\* never raises it.
C14_DuplicateAlwaysDetected ==
    (/\ last.op = "construct"
     /\ (last.o = 0 \/ IsSubclass(last.attr, ctype[last.o]))) =>
        IF DistinctNames(last.attr)
        THEN last.exc # "DuplicateOptionName"
        ELSE last.exc = "DuplicateOptionName" /\ ctype[last.c] = "None"

---------------------------------------------------------------------------
(* C15 *)

\* C15: delete on a field with no default removes the storage key when the dict
\* has it (is_set becomes false, every other key stays as it was) and raises
\* UnsetOption, changing nothing, when the dict lacks it; the get that follows a
\* delete raises UnsetOption, and the set that follows it (when the validator
\* accepts the value) makes the field set again.
C15_DeleteStep ==
    LET call == last'
        opt == OptOf(call)
        c == call.c
    IN  /\ (call.op = "delete" /\ ~HasDefault(opt)) =>
              IF opt.name \in DOMAIN opts[c]
              THEN /\ call.exc = ""
                   /\ opt.name \notin DOMAIN opts'[c]
                   /\ ~is_set(opts'[c], [type |-> "Option", opt |-> opt])
                   /\ SameButKey(c, opt.name)
              ELSE /\ call.exc = "UnsetOption"
                   /\ opts' = opts
        /\ (/\ last.op = "delete" /\ last.exc = ""
            /\ call.op \in {"get", "set"} /\ c = last.c /\ call.attr = last.attr
            /\ ~HasDefault(opt)) =>
              IF call.op = "get"
              THEN call.exc = "UnsetOption" /\ opts' = opts
              ELSE Validate(opt, call.arg).exc = "" =>
                       is_set(opts'[c], [type |-> "Option", opt |-> opt])

C15_DeleteNoDefault == [][C15_DeleteStep]_vars

\* A field with no default that was set has been deleted and is unset, while
\* another key stays.
C15_Witness ==
    /\ last.op = "delete" /\ last.exc = ""
    /\ ~HasDefault(OptOf(last))
    /\ OptOf(last).name \notin DOMAIN opts[last.c]
    /\ DOMAIN opts[last.c] # {}

---------------------------------------------------------------------------
(* C16 *)

\* C16: after construction, with or without a source, every field with a default
\* holds a fresh copy of its default (also when the source held another value
\* under that key), every key of the source that belongs to a field without a
\* default holds the source's value, and without a source the dict holds the
\* defaults of the defaulted fields and nothing else.
C16_DefaultsWin ==
    (last.op = "construct" /\ last.exc = "") =>
        LET c == last.c
            o == last.o
            T == last.attr
        IN  /\ \A a \in Attrs(T) :
                   LET opt == ClassAttr(T, a)
                   IN  IF HasDefault(opt)
                       THEN /\ opt.name \in DOMAIN opts[c]
                            /\ Export(c)[opt.name] = DefaultOf(opt)
                            /\ opts[c][opt.name] \notin DefRefs
                       ELSE IF o # 0 /\ opt.name \in DOMAIN opts[o]
                       THEN /\ opt.name \in DOMAIN opts[c]
                            /\ Export(c)[opt.name] = Export(o)[opt.name]
                       ELSE opt.name \notin DOMAIN opts[c]
            /\ o = 0 =>
                   DOMAIN opts[c] = {ClassAttr(T, a).name :
                                        a \in {b \in Attrs(T) : HasDefault(ClassAttr(T, b))}}

---------------------------------------------------------------------------
(* C17 *)

\* C17: clear() never raises and leaves the dict empty (export() is {} and is_set
\* is false for every field); the get that follows it returns the default of a
\* field that has one and makes that field, and no other, set, and raises
\* UnsetOption for a field that has none.
C17_ClearStep ==
    LET call == last'
        c == call.c
        opt == OptOf(call)
    IN  /\ call.op = "clear" =>
              /\ call.exc = ""
              /\ NewExport(c) = EmptyDict
              /\ \A a \in Attrs(ctype[c]) :
                     ~is_set(opts'[c], [type |-> "Option", opt |-> ClassAttr(ctype[c], a)])
        /\ (last.op = "clear" /\ call.op = "get" /\ c = last.c) =>
              IF HasDefault(opt)
              THEN /\ call.exc = ""
                   /\ call.ret = DefaultOf(opt)
                   /\ DOMAIN opts'[c] = {opt.name}
              ELSE /\ call.exc = "UnsetOption"
                   /\ opts' = opts

C17_ClearThenGet == [][C17_ClearStep]_vars

---------------------------------------------------------------------------
(* C18 *)

\* Config derives from the sealed Options, Plain from OptionsBase; both declare
\* the same Options.
Twin(T) == IF T = "Config" THEN "Plain" ELSE "Config"

\* A dict of references by content.
ByContent(self, hp) == [k \in DOMAIN self |-> hp[self[k]]]

\* What a call made through an attribute, or one of clear, diff, from_options,
\* build and is_set, does in the current state on a container that has the dict
\* of call.c and is of class T (the other container, when it is of the class of
\* call.c, being of class T too).
Expected(T, call) ==
    LET c == call.c
        self == opts[c]
        none == [exc |-> "", ret |-> None, flag |-> FALSE, dict |-> EmptyDict,
                 export |-> ByContent(self, heap)]
        otherT == IF call.o = 0 THEN "dict"
                  ELSE IF ctype[call.o] = ctype[c] THEN T ELSE ctype[call.o]
        other == IF call.o = 0 THEN EmptyDict ELSE opts[call.o]
    IN  CASE call.op = "set" ->
                LET a == Alloc(heap, call.arg)
                    r == _wrap_setter(self, a.heap, ClassAttr(T, call.attr), a.ref)
                IN  [none EXCEPT !.exc = r.exc, !.export = ByContent(r.opts, r.heap)]
          [] call.op = "get" ->
                LET r == _wrap_getter(self, heap, ClassAttr(T, call.attr))
                IN  [none EXCEPT !.exc = r.exc, !.ret = Content(r.heap, r.ret),
                                 !.export = ByContent(r.opts, r.heap)]
          [] call.op = "delete" ->
                LET r == _wrap_deleter(self, heap, ClassAttr(T, call.attr))
                IN  [none EXCEPT !.exc = r.exc, !.export = ByContent(r.opts, r.heap)]
          [] call.op = "is_set" ->
                [none EXCEPT !.flag =
                    is_set(self, IF call.how = "Option"
                                 THEN [type |-> "Option", opt |-> ClassAttr(T, call.attr)]
                                 ELSE [type |-> "str", str |-> call.attr])]
          [] call.op = "clear" ->
                [none EXCEPT !.export = ByContent(clear(self), heap)]
          [] call.op = "build" ->
                [none EXCEPT !.dict = ByContent(build(self), heap)]
          [] call.op = "diff" ->
                LET r == diff(T, self, otherT, other)
                IN  [none EXCEPT !.exc = r.exc, !.dict = ByContent(r.ret, heap)]
          [] call.op = "from_options" ->
                LET r == from_options(T, self, otherT, other)
                IN  [none EXCEPT !.exc = r.exc, !.export = ByContent(r.opts, heap)]

\* C18: on an instance of a class derived from Options, a direct call of fget,
\* fset or fdelete raises (AttributeError) and leaves the dict as it was; every
\* call through an attribute and every call of clear, diff, from_options, build
\* and is_set gives, on an instance of the sealed class, the result and the dict
\* it gives on an instance of the unsealed class with the same Options that has
\* the same dict (and the other way round), so equal sequences of calls give
\* equal results.
C18_SealedStep ==
    LET call == last'
        c == call.c
    IN  /\ (call.op \in {"fget", "fset", "fdelete"} /\ IsSubclass(ctype[c], "Options")) =>
              /\ call.exc = "AttributeError"
              /\ opts' = opts /\ heap' = heap
        /\ (/\ call.op \in {"set", "get", "delete", "is_set", "clear", "build",
                            "diff", "from_options"}
            /\ ctype[c] \in {"Config", "Plain"}) =>
              LET e == Expected(Twin(ctype[c]), call)
              IN  /\ call.exc = e.exc
                  /\ call.ret = e.ret
                  /\ call.flag = e.flag
                  /\ call.dict = e.dict
                  /\ NewExport(c) = e.export
        /\ (call.op = "construct" /\ call.attr \in {"Config", "Plain"}) =>
              /\ call.exc = ""
              /\ NewExport(c) = EmptyDict

---------------------------------------------------------------------------
(* C19 *)

\* C19: in every state, every key of a container's dict is the storage key of an
\* Option that the class of the container has (getattr of the class finds it
\* under some attribute name).
C19_KeysAreDeclared ==
    \A c \in Alive : DOMAIN opts[c] \subseteq StorageKeys(ctype[c])

====
